---- MODULE Spec2Model ----
(***************************************************************************)
(* MarketMate listing store (pwa/src/lib/indexeddb.ts).                    *)
(*                                                                         *)
(* The store is one IndexedDB object store "listings" with keyPath "id"    *)
(* and one index "by-date" on createdAt.  The module keeps one lazily      *)
(* created promise of the database handle (dbPromise).                     *)
(*                                                                         *)
(* Spec      : the store API driven by one caller that awaits every call   *)
(*             before issuing the next (each call is one step).            *)
(* SpecAsync : callers whose calls overlap; a call suspends at its         *)
(*             `await getDB()` and at its await of the db request; the     *)
(*             open and the request may fail.                              *)
(* SpecSaves : overlapping saveListing calls, each under an id of its own. *)
(* SpecId    : successive calls of generateListingId.                      *)
(* SpecPrice : calls of suggestPrice (pwa/src/utils/promptBuilders.ts).    *)
(* SpecEditor: the ImageUploader's handlers with overlapping selections,   *)
(*             and handleGenerate (pwa/src/components/ImageUploader.tsx,   *)
(*             pwa/src/pages/Editor.tsx).                                  *)
(* SpecRuns  : successive handleGenerate runs over time.                   *)
(* SpecAi    : calls of the AI functions (pwa/src/lib/chromeBuiltInAi.ts). *)
(* SpecPage  : the Editor with handleGenerate step by step, one step per   *)
(*             await, and the Editor's state; SpecPageFair adds that every *)
(*             await settles; SpecSteps has runs with different facts.     *)
(*             (SpecEditor and SpecRuns take a run as one step and keep    *)
(*             what it does to the store.)                                 *)
(* SpecHandler: handleGenerate called directly, whatever the button shows. *)
(* SpecTranslate: the language selector and the translation effect.        *)
(* SpecVoice : the VoiceRecorder component.                                *)
(***************************************************************************)
EXTENDS Integers, Sequences, FiniteSets, TLC

\* ---------------------------------------------------------------- bounds

\* Date.now() ranges over 0..MaxNow.
MaxNow == 1

\* Keys of the object store: three id strings, named by their rank in
\* IndexedDB's key order (1 < 2 < 3).
Ids == {1, 2, 3}
\* createdAt of a listing handed to saveListing (0, 1, 2 stand for the
\* timestamps 1000, 2000, 3000 of the ordering scenario).
CreatedTimes == {0, 1, 2}
\* updatedAt a caller puts on a listing before saving it: in the past (0) or
\* ahead of every clock reading (Date.now() + 1000 in the tests).
InputUpdatedTimes == {0, MaxNow + 1}

\* Callers whose store calls overlap.
NumProcs == 2
Procs == 1..NumProcs

\* Successive generateListingId calls.
MaxCalls == 3

\* The 9 of .substr(2, 9).
SuffixLen == 9

\* ------------------------------------------------------------ data model

\* The fields of StoredListing other than id, createdAt and updatedAt; two
\* payloads that differ in every field.
Payloads ==
  { [images |-> <<>>, voiceNote |-> "undefined", content |-> "Test 1",
     facts |-> "undefined", variants |-> "undefined", videoScript |-> "null"],
    [images |-> <<"img1", "img2">>, voiceNote |-> "voice", content |-> "Test 2",
     facts |-> "facts", variants |-> "variants", videoScript |-> "script"] }

MkListing(i, c, u, p) ==
  [id |-> i, createdAt |-> c, updatedAt |-> u,
   images |-> p.images, voiceNote |-> p.voiceNote, content |-> p.content,
   facts |-> p.facts, variants |-> p.variants, videoScript |-> p.videoScript]

\* StoredListing values a caller may pass to saveListing.
Listings ==
  { MkListing(i, c, u, p) : i \in Ids, c \in CreatedTimes,
                            u \in InputUpdatedTimes, p \in Payloads }

\* Placeholder for "no listing argument" in the call record.
NoListing ==
  [id |-> 0, createdAt |-> 0, updatedAt |-> 0, images |-> <<>>,
   voiceNote |-> "undefined", content |-> "", facts |-> "undefined",
   variants |-> "undefined", videoScript |-> "undefined"]

\* What a read returns for a missing key: undefined.
Undefined == <<>>

VARIABLES
  now,        \* Date.now()
  dbPromise,  \* the module-level dbPromise: 0 (null) or the number of a promise
  promises,   \* the promises openDB has returned, in order: their states
  store,      \* object store "listings": the set of records it holds
  lateIds,    \* history: keys whose record was saved with createdAt ahead of the clock
  last,       \* Spec: the last completed API call: operation, arguments, outcome
  pc,         \* SpecAsync: where each caller stands in its call
  call,       \* SpecAsync: the call each caller is in
  awaits,     \* SpecAsync: the promise getDB() returned to each caller
  generated,  \* SpecId: the ids generateListingId has returned, in order
  facts,      \* SpecPrice: the ProductFacts object last handed to suggestPrice
  priceCall,  \* SpecPrice: the last suggestPrice call and the one before it
  images,     \* SpecEditor: the Editor's images state (the ImageUploader prop)
  selections, \* SpecEditor: the handleFileSelect invocations in flight
  lastRun,    \* SpecEditor: the outcome of the last handleGenerate run
  ai,         \* SpecAi: the AI function call under way, and its outcome
  page,       \* SpecPage: the Editor's state other than images
  gen,        \* SpecPage: the handleGenerate invocations, step by step
  translations, \* SpecTranslate: the translateContent calls in flight
  rec         \* SpecVoice: the VoiceRecorder's state, refs and counters

\* The variables of the store module, and those of its clients.
storeVars == <<now, dbPromise, promises, store, lateIds, last, pc, call, awaits, generated>>
pageVars == <<page, gen, translations, rec>>
uiVars == <<facts, priceCall, images, selections, lastRun, ai, pageVars>>

vars == <<now, dbPromise, promises, store, lateIds, last, pc, call, awaits, generated,
          facts, priceCall, images, selections, lastRun, ai,
          page, gen, translations, rec>>

\* ------------------------------------------------------------- IndexedDB

\* The records stored under key id.
AtKey(st, id) == { r \in st : r.id = id }

\* A clone that loses the videoScript property.
CloneWithoutVideoScript(v) ==
  [id |-> v.id, createdAt |-> v.createdAt, updatedAt |-> v.updatedAt,
   images |-> v.images, voiceNote |-> v.voiceNote, content |-> v.content,
   facts |-> v.facts, variants |-> v.variants, videoScript |-> "undefined"]

\* The structured clone IDBObjectStore.put stores: every own property copied.
StructuredClone(v) ==
  [id |-> v.id, createdAt |-> v.createdAt, updatedAt |-> v.updatedAt,
   images |-> v.images, voiceNote |-> v.voiceNote, content |-> v.content,
   facts |-> v.facts, variants |-> v.variants, videoScript |-> v.videoScript]

\* A put that adds the record and keeps the one already under the key.
PutKeepingOld(st, v) == st \cup {v}

\* A put that drops the records under the other keys.
PutAlone(st, v) == {StructuredClone(v)}

\* db.put("listings", value): the key is value.id (keyPath "id"); the record
\* under that key, if any, is replaced by a clone of value.
Put(st, v) == (st \ AtKey(st, v.id)) \cup {StructuredClone(v)}

\* db.get("listings", id): the record, or undefined for a missing key.
Get(st, id) ==
  IF AtKey(st, id) = {} THEN Undefined ELSE <<CHOOSE r \in AtKey(st, id) : TRUE>>

\* A delete that removes nothing.
DeleteNothing(st, id) == st

\* A delete over the key range up to id instead of the single key.
DeleteUpTo(st, id) == { r \in st : r.id > id }

\* db.delete("listings", id): removes the record under id, if any.
Delete(st, id) == st \ AtKey(st, id)

\* A clear that removes only the record with the least key.
ClearFirstOnly(st) == { r \in st : \E s \in st : s.id < r.id }

\* db.clear("listings").
Clear(st) == {}

\* Order of the index "by-date": by index key createdAt, then by primary key.
IndexBefore(r, s) ==
  \/ r.createdAt < s.createdAt
  \/ r.createdAt = s.createdAt /\ r.id < s.id

RECURSIVE InIndexOrder(_)
InIndexOrder(S) ==
  IF S = {} THEN <<>>
  ELSE LET first == CHOOSE r \in S : \A s \in S \ {r} : IndexBefore(r, s)
       IN  <<first>> \o InIndexOrder(S \ {first})

\* index.getAll(): every record that has an index entry, in index order.
IndexGetAll(st) == InIndexOrder(st)

\* The array left as index.getAll() returned it.
NotReversed(s) == s

\* Array.prototype.reverse.
Reverse(s) == [k \in 1..Len(s) |-> s[Len(s) + 1 - k]]

\* ------------------------------------------------------------ the module

\* The record of a completed call: op, id, arg as passed, ok (resolved or
\* rejected), ret (the value it resolved with), at (for a save, the clock
\* reading it took).  before and after are history: the number of records
\* before the call, and for a read the write it directly follows.
Call(op, id, arg, ok, ret, at, after) ==
  [op |-> op, id |-> id, arg |-> arg, ok |-> ok, ret |-> ret, at |-> at,
   before |-> Cardinality(store), after |-> after]

NoWrite == [op |-> "other", removed |-> 0]

\* For a read of key id (0: all keys): the successful write that directly
\* preceded it on the same key, and how many records that write removed.
After(id) ==
  IF /\ last.ok
     /\ \/ last.op = "clear"
        \/ last.op \in {"save", "delete"} /\ id \in {0, last.id}
  THEN [op |-> last.op, removed |-> last.before - Cardinality(store)]
  ELSE NoWrite

\* The state of the promise dbPromise refers to.
DbState(dp, ps) == IF dp = 0 THEN "null" ELSE ps[dp]

\* A getDB that opens again unless a handle is already open.
NeedsOpenUnlessResolved == DbState(dbPromise, promises) # "resolved"

\* The open the kept promise stands for has failed.
OpenFailed == DbState(dbPromise, promises) = "rejected"

\* A getDB that opens again after an open that failed.
NeedsOpenAfterFailure ==
  dbPromise = 0 \/ DbState(dbPromise, promises) = "rejected"

\* if (!dbPromise)
NeedsOpen == dbPromise = 0

\* dbPromise = openDB(...): openDB returns a new promise, in the given state.
OpenDB(state) ==
  /\ promises' = Append(promises, state)
  /\ dbPromise' = Len(promises) + 1

\* await getDB() by a caller that runs alone: the first call invokes openDB
\* and keeps its promise, later calls return the kept promise; the promise
\* has settled when the caller goes on.  opened: whether the open succeeds.
GetDB(opened) ==
  IF NeedsOpen
  THEN OpenDB(IF opened THEN "resolved" ELSE "rejected")
  ELSE /\ opened
       /\ UNCHANGED <<dbPromise, promises>>

\* The caller's await of getDB() resolved with a handle.
Opened == DbState(dbPromise', promises') = "resolved"

\* A save that leaves the updatedAt the caller passed.
KeepsUpdatedAt(listing) == listing.updatedAt

\* What saveListing assigns to listing.updatedAt.
SavedUpdatedAt(listing) == now

\* listing.updatedAt = Date.now(); await db.put("listings", listing)
DoSave(listing) ==
  LET stamped == [listing EXCEPT !.updatedAt = SavedUpdatedAt(listing)]
  IN  /\ store' = Put(store, stamped)
      /\ lateIds' = IF listing.createdAt > now
                    THEN lateIds \cup {listing.id}
                    ELSE lateIds \ {listing.id}

\* await db.delete("listings", id)
DoDelete(id) ==
  /\ store' = Delete(store, id)
  /\ lateIds' = lateIds \ {id}

\* await db.clear("listings")
DoClear ==
  /\ store' = Clear(store)
  /\ lateIds' = {}

\* saveListing(listing)
SaveListing(listing, opened) ==
  /\ GetDB(opened)
  /\ IF Opened
     THEN /\ DoSave(listing)
          /\ last' = Call("save", listing.id, listing, TRUE, <<>>, now, NoWrite)
     ELSE /\ UNCHANGED <<store, lateIds>>
          /\ last' = Call("save", listing.id, listing, FALSE, <<>>, now, NoWrite)
  /\ UNCHANGED <<now, pc, call, awaits, generated, uiVars>>

\* getListing(id)
GetListing(id, opened) ==
  /\ GetDB(opened)
  /\ IF Opened
     THEN last' = Call("get", id, NoListing, TRUE, Get(store, id), -1, After(id))
     ELSE last' = Call("get", id, NoListing, FALSE, <<>>, -1, After(id))
  /\ UNCHANGED <<now, store, lateIds, pc, call, awaits, generated, uiVars>>

\* getAllListings()
GetAllListings(opened) ==
  /\ GetDB(opened)
  /\ IF Opened
     THEN last' = Call("getAll", 0, NoListing, TRUE, Reverse(IndexGetAll(store)),
                       -1, After(0))
     ELSE last' = Call("getAll", 0, NoListing, FALSE, <<>>, -1, After(0))
  /\ UNCHANGED <<now, store, lateIds, pc, call, awaits, generated, uiVars>>

\* deleteListing(id)
DeleteListing(id, opened) ==
  /\ GetDB(opened)
  /\ IF Opened
     THEN /\ DoDelete(id)
          /\ last' = Call("delete", id, NoListing, TRUE, <<>>, -1, NoWrite)
     ELSE /\ UNCHANGED <<store, lateIds>>
          /\ last' = Call("delete", id, NoListing, FALSE, <<>>, -1, NoWrite)
  /\ UNCHANGED <<now, pc, call, awaits, generated, uiVars>>

\* clearAllListings()
ClearAllListings(opened) ==
  /\ GetDB(opened)
  /\ IF Opened
     THEN /\ DoClear
          /\ last' = Call("clear", 0, NoListing, TRUE, <<>>, -1, NoWrite)
     ELSE /\ UNCHANGED <<store, lateIds>>
          /\ last' = Call("clear", 0, NoListing, FALSE, <<>>, -1, NoWrite)
  /\ UNCHANGED <<now, pc, call, awaits, generated, uiVars>>

\* Time passes.
Tick ==
  /\ now < MaxNow
  /\ now' = now + 1
  /\ UNCHANGED <<dbPromise, promises, store, lateIds, last, pc, call, awaits, generated, uiVars>>

\* ------------------------------------------------- callers that overlap

\* A call in flight: op, id, arg (the listing as passed: history), obj (the
\* caller's listing object, which saveListing writes to), val (the value
\* handed to db.put), tx (the place of its transaction among the pending
\* ones, 0: none), err (what it rejected with), seen (whether the open had
\* failed when the function was called: history).
NoCall ==
  [op |-> "none", id |-> 0, arg |-> NoListing, obj |-> NoListing,
   val |-> NoListing, tx |-> 0, err |-> "none", seen |-> "none"]

NewCall(op, id, l) ==
  [op |-> op, id |-> id, arg |-> l, obj |-> l, val |-> NoListing,
   tx |-> 0, err |-> "none", seen |-> "none"]

\* The calls the overlapping callers issue: saves of listings under two ids
\* (updatedAt ahead of the clock, so that the save's assignment shows), and
\* one of each other operation.
AsyncListings ==
  { MkListing(i, 0, MaxNow + 1, p) : i \in {1, 2}, p \in Payloads }

AsyncCalls ==
  { NewCall("save", l.id, l) : l \in AsyncListings }
    \cup { NewCall(o, 1, NoListing) : o \in {"get", "delete"} }
    \cup { NewCall(o, 0, NoListing) : o \in {"getAll", "clear"} }

\* A store function is called: it runs getDB() up to its return (openDB is
\* invoked if no promise is kept) and suspends at `await getDB()`.
Start(p, c) ==
  /\ pc[p] = "idle"
  /\ IF NeedsOpen THEN OpenDB("pending") ELSE UNCHANGED <<dbPromise, promises>>
  /\ awaits' = [awaits EXCEPT ![p] = dbPromise']
  /\ call' = [call EXCEPT ![p] = [c EXCEPT !.seen = IF OpenFailed THEN "rejected" ELSE "none"]]
  /\ pc' = [pc EXCEPT ![p] = "awaitDB"]
  /\ UNCHANGED <<now, store, lateIds, last, generated, uiVars>>

\* openDB settles: the database opens, or the open fails.
OpenSettles(k, state) ==
  /\ k \in 1..Len(promises)
  /\ promises[k] = "pending"
  /\ promises' = [promises EXCEPT ![k] = state]
  /\ UNCHANGED <<now, dbPromise, store, lateIds, last, pc, call, awaits, generated, uiVars>>

\* The transactions created and not yet finished.
Pending == { q \in Procs : call[q].tx > 0 }

\* A save that stamps the caller's listing before it awaits getDB(), so that
\* a call rejected by the open has written to it.
StampedThenRejected(c) ==
  [c EXCEPT !.err = "open", !.obj = [c.obj EXCEPT !.updatedAt = now]]

\* The call as `await getDB()` leaves it when the open failed: the function
\* rejects with the open's error before its next statement.
RejectedByOpen(c) == [c EXCEPT !.err = "open"]

\* The call after its await of getDB(): saveListing assigns
\* listing.updatedAt, then every function issues its one db request, which
\* creates a transaction behind the pending ones (db.put clones the value).
Requested(c) ==
  LET stamped == IF c.op = "save"
                 THEN [c.obj EXCEPT !.updatedAt = SavedUpdatedAt(c.obj)]
                 ELSE c.obj
  IN  [c EXCEPT !.obj = stamped,
                !.val = IF c.op = "save" THEN StructuredClone(stamped) ELSE NoListing,
                !.tx = Cardinality(Pending) + 1]

\* The caller's await resolved with the handle: the rest of the function
\* runs up to its await of the db request.
Resume(p) ==
  /\ pc[p] = "awaitDB"
  /\ promises[awaits[p]] = "resolved"
  /\ call' = [call EXCEPT ![p] = Requested(call[p])]
  /\ pc' = [pc EXCEPT ![p] = "awaitTx"]
  /\ UNCHANGED <<now, dbPromise, promises, store, lateIds, last, awaits, generated, uiVars>>

\* The caller's await rejected: the function rejects with the open's error.
Reject(p) ==
  /\ pc[p] = "awaitDB"
  /\ promises[awaits[p]] = "rejected"
  /\ call' = [call EXCEPT ![p] = RejectedByOpen(call[p])]
  /\ pc' = [pc EXCEPT ![p] = "failed"]
  /\ UNCHANGED <<now, dbPromise, promises, store, lateIds, last, awaits, generated, uiVars>>

\* The transaction of p has left the queue: the ones behind it move up.
Dequeued(p, err) ==
  [q \in Procs |->
     IF q = p THEN [call[q] EXCEPT !.tx = 0, !.err = err]
     ELSE IF call[q].tx > 0 THEN [call[q] EXCEPT !.tx = call[q].tx - 1]
     ELSE call[q]]

\* A put applied before the transaction failed, and not rolled back.
AppliedThenFailed(st, c) ==
  IF c.op = "save" THEN Put(st, c.val) ELSE st

\* The object store after a transaction that failed: the transaction is
\* aborted, nothing of it is kept.
Aborted(st, c) == st

\* What the transaction of call c makes of the object store.
Applied(st, c) ==
  CASE c.op = "save" -> Put(st, c.val)
    [] c.op = "delete" -> Delete(st, c.id)
    [] c.op = "clear" -> Clear(st)
    [] OTHER -> st

\* The keys saved with createdAt ahead of the clock, after call c.
LateAfter(c) ==
  CASE c.op = "save" -> IF c.val.createdAt > c.val.updatedAt
                        THEN lateIds \cup {c.id} ELSE lateIds \ {c.id}
    [] c.op = "delete" -> lateIds \ {c.id}
    [] c.op = "clear" -> {}
    [] OTHER -> lateIds

\* The oldest pending transaction completes (transactions on one object
\* store run in the order they were created): the awaited request resolves.
Commit(p) ==
  /\ pc[p] = "awaitTx"
  /\ call[p].tx = 1
  /\ store' = Applied(store, call[p])
  /\ lateIds' = LateAfter(call[p])
  /\ call' = Dequeued(p, "none")
  /\ pc' = [pc EXCEPT ![p] = "done"]
  /\ UNCHANGED <<now, dbPromise, promises, last, awaits, generated, uiVars>>

\* The oldest pending transaction fails (an I/O error): the awaited request
\* rejects and the function rejects with that error.
Abort(p) ==
  /\ pc[p] = "awaitTx"
  /\ call[p].tx = 1
  /\ store' = Aborted(store, call[p])
  /\ call' = Dequeued(p, "io")
  /\ pc' = [pc EXCEPT ![p] = "failed"]
  /\ UNCHANGED <<now, dbPromise, promises, lateIds, last, awaits, generated, uiVars>>

\* The caller takes the outcome and is free to call again.
Return(p) ==
  /\ pc[p] \in {"done", "failed"}
  /\ pc' = [pc EXCEPT ![p] = "idle"]
  /\ call' = [call EXCEPT ![p] = NoCall]
  /\ awaits' = [awaits EXCEPT ![p] = 0]
  /\ UNCHANGED <<now, dbPromise, promises, store, lateIds, last, generated, uiVars>>

\* The page is loaded again while no call is in flight: the module is
\* evaluated afresh (dbPromise = null); the database keeps its records.
Reload ==
  /\ \A p \in Procs : pc[p] = "idle"
  /\ dbPromise # 0
  /\ dbPromise' = 0
  /\ promises' = <<>>
  /\ UNCHANGED <<now, store, lateIds, last, pc, call, awaits, generated, uiVars>>

\* Two overlapping saves under different ids: caller p saves a listing
\* under id p, once.
StartSave(p, payload) ==
  Start(p, NewCall("save", p, MkListing(p, 0, MaxNow + 1, payload)))

\* ---------------------------------------------------- generateListingId

\* Math.random().toString(36) is "0." followed by base-36 digits ("0" for 0);
\* a draw is the sequence of those digits.  The draws: 0, 0.5 ("0.i"), two
\* numbers of eleven digits that differ in the last digit only, and one that
\* differs from both in the first digit.
RandomDraws ==
  { <<>>,
    <<18>>,
    <<1, 2, 3, 4, 5, 6, 7, 8, 9, 10, 11>>,
    <<1, 2, 3, 4, 5, 6, 7, 8, 9, 10, 12>>,
    <<35, 2, 3, 4, 5, 6, 7, 8, 9, 10, 11>> }

\* .substr(2, 9) of that string: at most SuffixLen digits after "0.".
Substr(digits) ==
  SubSeq(digits, 1, IF Len(digits) < SuffixLen THEN Len(digits) ELSE SuffixLen)

\* `listing_${Date.now()}_${Math.random().toString(36).substr(2, 9)}`
ListingId(time, digits) ==
  [prefix |-> "listing_", time |-> time, suffix |-> Substr(digits)]

\* generateListingId()
GenerateListingId(digits) ==
  /\ Len(generated) < MaxCalls
  /\ generated' = Append(generated, ListingId(now, digits))
  /\ UNCHANGED <<now, dbPromise, promises, store, lateIds, last, pc, call, awaits, uiVars>>

\* ---------------------------------------------------------- suggestPrice

\* JavaScript values as the function meets them: a number, undefined, NaN,
\* or a function object.
Num(n) == [kind |-> "number", val |-> n]
JsUndefined == [kind |-> "undefined", val |-> 0]
JsNaN == [kind |-> "NaN", val |-> 0]
JsFunction == [kind |-> "function", val |-> 0]

\* ToBoolean, read as if every number but NaN were true.
IsNumber(v) == v.kind = "number"

\* ToBoolean of a value: undefined, NaN and 0 are false; other numbers and
\* every object are true.
Truthy(v) == v.kind = "function" \/ (v.kind = "number" /\ v.val # 0)

\* a || b
Or(a, b) == IF Truthy(a) THEN a ELSE b

\* The table of base prices by category.
basePrices ==
  ("Electronics" :> 100) @@ ("Clothing" :> 25) @@ ("Furniture" :> 200)
    @@ ("Books" :> 10) @@ ("Sports" :> 50) @@ ("Tools" :> 75) @@ ("Toys" :> 20)

\* The table of multipliers by condition, in hundredths (0.85 is 85).
conditionMultiplier ==
  ("New" :> 100) @@ ("Like New" :> 85) @@ ("Good" :> 65) @@ ("Fair" :> 45)
    @@ ("Poor" :> 25)

\* Property names both tables inherit from Object.prototype, being object
\* literals; the value of each is a function.
InheritedNames == {"constructor", "toString", "valueOf", "hasOwnProperty"}

\* table[key]: an own property, else one found along the prototype chain,
\* else undefined.
Lookup(table, key) ==
  IF key \in DOMAIN table THEN Num(table[key])
  ELSE IF key \in InheritedNames THEN JsFunction
  ELSE JsUndefined

\* base * multiplier, in hundredths; NaN when an operand is no number.
Times(a, b) ==
  IF a.kind = "number" /\ b.kind = "number" THEN Num(a.val * b.val) ELSE JsNaN

\* Math.round of a value given in hundredths: the nearest integer, a half
\* going up; NaN stays NaN.
MathRound(x) ==
  IF x.kind = "number" THEN Num((x.val + 50) \div 100) ELSE JsNaN

\* suggestPrice(facts)
suggestPrice(f) ==
  IF Truthy(f.estimatedPrice)
  THEN f.estimatedPrice
  ELSE LET base == Or(Lookup(basePrices, f.category), Num(50))
           multiplier == Or(Lookup(conditionMultiplier, f.condition), Num(50))
       IN  MathRound(Times(base, multiplier))

\* The categories, conditions and estimated prices suggestPrice is called
\* with: those of the tables, "Unknown" and "Used" (in neither table), and a
\* name objects inherit.
Categories ==
  {"Electronics", "Clothing", "Furniture", "Books", "Sports", "Tools", "Toys",
   "Unknown", "constructor"}
Conditions ==
  {"New", "Like New", "Good", "Fair", "Poor", "Used", "toString"}
EstimatedPrices == {JsUndefined, Num(0), Num(100)}

FactsInputs ==
  [category : Categories, condition : Conditions, estimatedPrice : EstimatedPrices]

NoFacts == [category |-> "", condition |-> "", estimatedPrice |-> JsUndefined]
NoPrev == [condition |-> "", result |-> JsUndefined]
NoPriceCall ==
  [called |-> FALSE, arg |-> NoFacts, result |-> JsUndefined, prev |-> NoPrev]

\* A suggestPrice that keeps its result on the argument.
ArgumentWithPrice(f) == [f EXCEPT !.estimatedPrice = suggestPrice(f)]

\* The argument object after the call: the function assigns to none of its
\* properties.
ArgumentAfter(f) == f

\* A caller builds the facts f and calls suggestPrice(f).  priceCall keeps
\* the call, and of the call before it the condition and the result when it
\* had the same category and estimatedPrice.
CallSuggestPrice(f) ==
  /\ facts' = ArgumentAfter(f)
  /\ priceCall' =
       [called |-> TRUE, arg |-> f, result |-> suggestPrice(f),
        prev |-> IF /\ priceCall.called
                    /\ priceCall.arg.category = f.category
                    /\ priceCall.arg.estimatedPrice = f.estimatedPrice
                 THEN [condition |-> priceCall.arg.condition,
                       result |-> priceCall.result]
                 ELSE NoPrev]
  /\ UNCHANGED <<storeVars, images, selections, lastRun, ai, pageVars>>

\* ---------------------------------------------- ImageUploader and Editor

\* maxImages = 5, the default of the ImageUploader prop (Editor passes none).
maxImages == 5

\* The numbers of image files in one selection, drop or capture: none, one,
\* some, and more than maxImages.
FileCounts == {0, 1, 3, 6}

\* handleFileSelect invocations that can be in flight together.
Slots == {1, 2}

\* A list of n images.
Imgs(n) == [i \in 1..n |-> "img"]

\* A slice that keeps every file.
SliceAll(files, end) == files

\* files.slice(0, end): the first end elements; all but the last -end for a
\* negative end.
Slice(files, end) ==
  LET n == Len(files)
      to == IF end >= 0 THEN (IF end < n THEN end ELSE n)
            ELSE (IF n + end > 0 THEN n + end ELSE 0)
  IN  SubSeq(files, 1, to)

\* images.filter((_, i) => i !== index), index counted from 1 here.
Without(imgs, index) ==
  [i \in 1..(Len(imgs) - 1) |-> IF i < index THEN imgs[i] ELSE imgs[i + 1]]

NoSelection == [pc |-> "idle", images |-> <<>>, todo |-> <<>>]

\* handleFileSelect(files), with n image files among them, run by the
\* component instance that rendered imgs: up to its first await.
FileSelect(s, imgs, n) ==
  selections' =
    [selections EXCEPT ![s] =
       [pc |-> "reading", images |-> imgs,
        todo |-> Slice(Imgs(n), maxImages - Len(imgs))]]

\* The file input changes: handleFileSelect(e.target.files).
HandleFileSelect(s, n) ==
  /\ selections[s].pc = "idle"
  /\ FileSelect(s, images, n)
  /\ UNCHANGED <<storeVars, facts, priceCall, images, lastRun, ai, pageVars>>

\* Files are dropped: handleFileSelect(e.dataTransfer.files).
HandleDrop(s, n) ==
  /\ selections[s].pc = "idle"
  /\ FileSelect(s, images, n)
  /\ UNCHANGED <<storeVars, facts, priceCall, images, lastRun, ai, pageVars>>

\* openCamera(): an input is created whose onchange holds the
\* handleFileSelect of the present render.
OpenCamera(s) ==
  /\ selections[s].pc = "idle"
  /\ selections' = [selections EXCEPT ![s] =
                      [pc |-> "camera", images |-> images, todo |-> <<>>]]
  /\ UNCHANGED <<storeVars, facts, priceCall, images, lastRun, ai, pageVars>>

\* The camera input changes: the handleFileSelect it holds is called.
CameraChange(s, n) ==
  /\ selections[s].pc = "camera"
  /\ FileSelect(s, selections[s].images, n)
  /\ UNCHANGED <<storeVars, facts, priceCall, images, lastRun, ai, pageVars>>

\* The reads of the invocation are over, ok of them with an image (a failed
\* read is logged and skipped): onImagesChange([...images, ...newImages]).
FilesRead(s, ok) ==
  /\ selections[s].pc = "reading"
  /\ ok \in 0..Len(selections[s].todo)
  /\ images' = selections[s].images \o SubSeq(selections[s].todo, 1, ok)
  /\ selections' = [selections EXCEPT ![s] = NoSelection]
  /\ UNCHANGED <<storeVars, facts, priceCall, lastRun, ai, pageVars>>

\* removeImage(index)
RemoveImage(index) ==
  /\ index \in 1..Len(images)
  /\ images' = Without(images, index)
  /\ UNCHANGED <<storeVars, facts, priceCall, selections, lastRun, ai, pageVars>>

\* The Math.random() draws of the ids the Editor generates.
EditorDraws == { <<>>, <<18>> }

\* The steps of handleGenerate that await an AI function.
AiSteps == {"facts", "content", "variants", "script", "proofread"}

NoRun == [outcome |-> "none", before |-> 0, time |-> 0, suffix |-> <<>>]

\* The outcome of a run: how it ended, the number of records before it, and
\* the id it generated (time, suffix), if it did.
Run(outcome, id) ==
  [outcome |-> outcome, before |-> Cardinality(store),
   time |-> id.time, suffix |-> id.suffix]

\* The listing handleGenerate hands to saveListing.
NewListing(id, voice) ==
  [id |-> id, createdAt |-> now, updatedAt |-> now, images |-> images,
   voiceNote |-> IF voice THEN "voice" ELSE "undefined",
   content |-> "content", facts |-> "facts", variants |-> "variants",
   videoScript |-> IF voice THEN "script" ELSE "null"]

\* handleGenerate(), from the click to its finally block.  voice: a voice
\* note is recorded; failing: the AI step that throws ("none": none does);
\* digits: the Math.random() draw of generateListingId; opened, written:
\* whether saveListing's open and put succeed.
HandleGenerate(voice, failing, digits, opened, written) ==
  /\ failing \in AiSteps \cup {"none"}
  /\ failing = "script" => voice
  /\ IF Len(images) = 0
     THEN /\ lastRun' = Run("noImages", ListingId(0, <<>>))
          /\ UNCHANGED <<dbPromise, promises, store, lateIds>>
     ELSE IF failing # "none"
     THEN /\ lastRun' = Run("failed", ListingId(0, <<>>))
          /\ UNCHANGED <<dbPromise, promises, store, lateIds>>
     ELSE /\ GetDB(opened)
          /\ IF Opened /\ written
             THEN /\ DoSave(NewListing(ListingId(now, digits), voice))
                  /\ lastRun' = Run("complete", ListingId(now, digits))
             ELSE /\ UNCHANGED <<store, lateIds>>
                  /\ lastRun' = Run("failed", ListingId(now, digits))
  /\ UNCHANGED <<now, last, pc, call, awaits, generated,
                 facts, priceCall, images, selections, ai, pageVars>>

\* ---------------------------------------------- the Editor, step by step

\* The handleGenerate invocations that can be in flight at once.
RunSlots == {1, 2}

\* The different answers generateFactsFromImageAndVoice gives; the content,
\* the variants and the video script of a run are derived from its facts
\* and are named by the same number.
Answers == {1, 2}

\* null, as the value of content and of translatedContent.
NoContent == [of |-> 0, proofread |-> FALSE, lang |-> "none"]

\* The ListingContent generateTitleAndDescription resolves with for the
\* facts of answer k (suggestedPrice included).
ListingContent(k) == [of |-> k, proofread |-> FALSE, lang |-> "en"]

\* A final content that keeps the title and description as generated.
NotProofread(c) == c

\* { ...listingContent, title: proofreadTitle, description: proofreadDesc }
Proofread(c) == [c EXCEPT !.proofread = TRUE]

\* { ...content, title: translatedTitle, description: translatedDesc }, the
\* texts being translateText's of the title and description into lang.
Translated(c, lang) == [c EXCEPT !.lang = lang]

\* The Editor's state after its first render.  facts, variants and
\* videoScript: 0 is null (for variants: []), k the value of answer k;
\* clearing: a setTimeout that resets progress is pending.
InitPage ==
  [voiceNote |-> FALSE, isGenerating |-> FALSE, progress |-> "",
   facts |-> 0, content |-> NoContent, variants |-> 0, videoScript |-> 0,
   selectedLanguage |-> "en", translatedContent |-> NoContent,
   clearing |-> FALSE]

\* An invocation of handleGenerate: where it stands (idle; the await it is
\* suspended at; rejected, failed or complete once it has returned), and
\* until it returns the images and voiceNote of the render it was called
\* in, its local extractedFacts and finalVideoScript, the id and createdAt
\* it generated, and the functions it has called so far (history).
NoGen ==
  [pc |-> "idle", images |-> <<>>, voice |-> FALSE, facts |-> 0, script |-> 0,
   id |-> ListingId(0, <<>>), createdAt |-> 0, calls |-> <<>>]

\* The awaits of handleGenerate.
Awaiting ==
  {"facts", "content", "variants", "script", "proofreadTitle",
   "proofreadDesc", "save"}

\* A handler without the check of its images.
NeverEmpty(imgs) == FALSE

\* if (images.length === 0)
NoImages(imgs) == Len(imgs) = 0

\* A button that is disabled only for want of images.
DisabledWithoutImages == Len(images) = 0

\* disabled={isGenerating || images.length === 0}
ButtonDisabled == page.isGenerating \/ Len(images) = 0

\* finally { setIsGenerating(false) }
Finally(p) == [p EXCEPT !.isGenerating = FALSE]

\* The effect on [selectedLanguage, content], run after a render with state
\* p: what it makes of the state ...
EffectState(p) ==
  IF p.selectedLanguage # "en" /\ p.content # NoContent
  THEN p
  ELSE [p EXCEPT !.translatedContent = NoContent]

\* ... and the translateContent calls in flight after it: translateContent
\* holds the content and selectedLanguage of that render.
EffectCalls(p, calls) ==
  IF p.selectedLanguage # "en" /\ p.content # NoContent
  THEN calls \cup {[content |-> p.content, lang |-> p.selectedLanguage]}
  ELSE calls

\* handleGenerate is called in the present render and runs up to its first
\* await, in the first slot that is free.
InvokeGenerate(r) ==
  /\ gen[r].pc \notin Awaiting
  /\ \A q \in RunSlots : q < r => gen[q].pc \in Awaiting
  /\ IF NoImages(images)
     THEN /\ gen' = [gen EXCEPT ![r] = [NoGen EXCEPT !.pc = "rejected"]]
          /\ page' = page
     ELSE /\ gen' = [gen EXCEPT ![r] =
                       [NoGen EXCEPT !.pc = "facts", !.images = images,
                                     !.voice = page.voiceNote,
                                     !.calls = <<"generateFactsFromImageAndVoice">>]]
          /\ page' = [page EXCEPT !.isGenerating = TRUE,
                                  !.progress = "Analyzing images..."]
  /\ UNCHANGED <<storeVars, facts, priceCall, images, selections, lastRun, ai,
                 translations, rec>>

\* The Generate button is clicked: a disabled button does not call onClick.
ClickGenerate(r) ==
  /\ ~ButtonDisabled
  /\ InvokeGenerate(r)

\* Step 1 is over: generateFactsFromImageAndVoice resolved with answer k.
FactsDone(r, k) ==
  /\ gen[r].pc = "facts"
  /\ gen' = [gen EXCEPT ![r].pc = "content", ![r].facts = k,
                        ![r].calls = Append(@, "generateTitleAndDescription")]
  /\ page' = [page EXCEPT !.facts = k,
                          !.progress = "Generating listing content..."]
  /\ UNCHANGED <<storeVars, facts, priceCall, images, selections, lastRun, ai,
                 translations, rec>>

\* Step 2 is over: setContent(listingContent), after which the effect runs.
ContentDone(r) ==
  LET set == [page EXCEPT !.content = ListingContent(gen[r].facts),
                          !.progress = "Generating tone variants..."]
  IN  /\ gen[r].pc = "content"
      /\ gen' = [gen EXCEPT ![r].pc = "variants",
                            ![r].calls = Append(@, "generateVariants")]
      /\ page' = EffectState(set)
      /\ translations' = EffectCalls(set, translations)
      /\ UNCHANGED <<storeVars, facts, priceCall, images, selections, lastRun, ai,
                     rec>>

\* Step 3 is over: setVariants; step 4 is entered if (voiceNote), else
\* step 5.
VariantsDone(r) ==
  /\ gen[r].pc = "variants"
  /\ IF gen[r].voice
     THEN /\ gen' = [gen EXCEPT ![r].pc = "script",
                                ![r].calls = Append(@, "summarizeVoiceNote")]
          /\ page' = [page EXCEPT !.variants = gen[r].facts,
                                  !.progress = "Creating video script..."]
     ELSE /\ gen' = [gen EXCEPT ![r].pc = "proofreadTitle",
                                ![r].calls = Append(@, "proofreadText")]
          /\ page' = [page EXCEPT !.variants = gen[r].facts,
                                  !.progress = "Proofreading..."]
  /\ UNCHANGED <<storeVars, facts, priceCall, images, selections, lastRun, ai,
                 translations, rec>>

\* Step 4 is over: finalVideoScript = scriptData.videoScript; setVideoScript.
ScriptDone(r) ==
  /\ gen[r].pc = "script"
  /\ gen' = [gen EXCEPT ![r].pc = "proofreadTitle", ![r].script = gen[r].facts,
                        ![r].calls = Append(@, "proofreadText")]
  /\ page' = [page EXCEPT !.videoScript = gen[r].facts,
                          !.progress = "Proofreading..."]
  /\ UNCHANGED <<storeVars, facts, priceCall, images, selections, lastRun, ai,
                 translations, rec>>

\* Step 5, first half: proofreadText(listingContent.title) resolved.
TitleProofread(r) ==
  /\ gen[r].pc = "proofreadTitle"
  /\ gen' = [gen EXCEPT ![r].pc = "proofreadDesc",
                        ![r].calls = Append(@, "proofreadText")]
  /\ UNCHANGED <<storeVars, facts, priceCall, images, selections, lastRun, ai,
                 page, translations, rec>>

\* Step 5 is over: finalContent is listingContent with the proofread title
\* and description; setContent(finalContent), after which the effect runs;
\* step 6 generates the id and calls saveListing.
DescProofread(r, digits) ==
  LET set == [page EXCEPT !.content = Proofread(ListingContent(gen[r].facts))]
  IN  /\ gen[r].pc = "proofreadDesc"
      /\ gen' = [gen EXCEPT ![r].pc = "save", ![r].id = ListingId(now, digits),
                            ![r].createdAt = now,
                            ![r].calls = Append(@, "saveListing")]
      /\ page' = EffectState(set)
      /\ translations' = EffectCalls(set, translations)
      /\ UNCHANGED <<storeVars, facts, priceCall, images, selections, lastRun, ai,
                     rec>>

\* A listing that takes its video script from the Editor's state.
VideoScriptOfState(g) == page.videoScript

\* videoScript: finalVideoScript
FinalVideoScript(g) == g.script

\* The argument of saveListing in step 6.
ListingOf(g) ==
  [id |-> g.id, createdAt |-> g.createdAt, updatedAt |-> g.createdAt,
   images |-> g.images,
   voiceNote |-> IF g.voice THEN "voice" ELSE "undefined",
   content |-> Proofread(ListingContent(g.facts)), facts |-> g.facts,
   variants |-> g.facts,
   videoScript |-> FinalVideoScript(g)]

\* Step 6 is over: saveListing resolved (the open and the put succeeded) or
\* rejected; then the finally block.
SaveDone(r, opened, written) ==
  /\ gen[r].pc = "save"
  /\ GetDB(opened)
  /\ IF Opened /\ written
     THEN /\ DoSave(ListingOf(gen[r]))
          /\ gen' = [gen EXCEPT ![r] = [NoGen EXCEPT !.pc = "complete"]]
          /\ page' = Finally([page EXCEPT !.progress = "Complete!",
                                          !.clearing = TRUE])
     ELSE /\ UNCHANGED <<store, lateIds>>
          /\ gen' = [gen EXCEPT ![r] = [NoGen EXCEPT !.pc = "failed"]]
          /\ page' = Finally([page EXCEPT !.progress = ""])
  /\ UNCHANGED <<now, last, pc, call, awaits, generated,
                 facts, priceCall, images, selections, lastRun, ai,
                 translations, rec>>

\* An AI function rejects: the catch block, then the finally block.
GenerateFails(r) ==
  /\ gen[r].pc \in Awaiting \ {"save"}
  /\ gen' = [gen EXCEPT ![r] = [NoGen EXCEPT !.pc = "failed"]]
  /\ page' = Finally([page EXCEPT !.progress = ""])
  /\ UNCHANGED <<storeVars, facts, priceCall, images, selections, lastRun, ai,
                 translations, rec>>

\* setTimeout(() => setProgress(""), 2000) fires.
ProgressTimeout ==
  /\ page.clearing
  /\ page' = [page EXCEPT !.progress = "", !.clearing = FALSE]
  /\ UNCHANGED <<storeVars, facts, priceCall, images, selections, lastRun, ai,
                 gen, translations, rec>>

\* The continuation of an await of handleGenerate runs; answers: what
\* generateFactsFromImageAndVoice may resolve with.
Settles(r, answers) ==
  \/ \E k \in answers : FactsDone(r, k)
  \/ ContentDone(r)
  \/ VariantsDone(r)
  \/ ScriptDone(r)
  \/ TitleProofread(r)
  \/ DescProofread(r, <<18>>)
  \/ \E w \in BOOLEAN : SaveDone(r, TRUE, w)
  \/ GenerateFails(r)

\* onLanguageChange={setSelectedLanguage}, from the selector of the preview
\* (shown when translatedContent || content is set); after the render the
\* effect runs.
SetSelectedLanguage(lang) ==
  LET set == [page EXCEPT !.selectedLanguage = lang]
  IN  /\ page.translatedContent # NoContent \/ page.content # NoContent
      /\ lang # page.selectedLanguage
      /\ page' = EffectState(set)
      /\ translations' = EffectCalls(set, translations)
      /\ UNCHANGED <<storeVars, facts, priceCall, images, selections, lastRun, ai,
                     gen, rec>>

\* A translateContent call is over: both translateText calls resolved and
\* setTranslatedContent is called, or one rejected and the error is logged.
TranslationDone(t, ok) ==
  /\ t \in translations
  /\ translations' = translations \ {t}
  /\ page' = IF ok
             THEN [page EXCEPT !.translatedContent = Translated(t.content, t.lang)]
             ELSE page
  /\ UNCHANGED <<storeVars, facts, priceCall, images, selections, lastRun, ai,
                 gen, rec>>

\* ---------------------------------------------------- the VoiceRecorder

\* maxDuration = 20 (seconds)
maxDuration == 20

\* Clicks on the record button.
MaxRecordings == 2

\* The recorder after its first render.  interval: the setInterval of the
\* effect is set; asking: getUserMedia calls not yet settled; recorder: the
\* state of mediaRecorderRef.current; unreferenced: recorders started that
\* the ref no longer holds; reading: onstop handlers awaiting
\* blobToVoiceData.  History: clicks, and how often isRecording became true
\* (started) and false (ended), and the reads that delivered a voice note
\* or failed (lost).
NoRecorder ==
  [isRecording |-> FALSE, recordingTime |-> 0, interval |-> FALSE,
   asking |-> 0, recorder |-> "null", unreferenced |-> 0, reading |-> 0,
   clicks |-> 0, started |-> 0, ended |-> 0, delivered |-> 0, lost |-> 0]

\* The record button is clicked: startRecording() up to its await of
\* getUserMedia.  The button is rendered while there is no voice note and
\* isRecording is false.
StartRecording ==
  /\ ~page.voiceNote
  /\ ~rec.isRecording
  /\ rec.clicks < MaxRecordings
  /\ rec' = [rec EXCEPT !.asking = @ + 1, !.clicks = @ + 1]
  /\ UNCHANGED <<storeVars, facts, priceCall, images, selections, lastRun, ai,
                 page, gen, translations>>

\* getUserMedia resolved: a MediaRecorder is created, started and put in the
\* ref; setIsRecording(true); setRecordingTime(0).  The effect sets the
\* interval when isRecording has changed.
MediaGranted ==
  /\ rec.asking > 0
  /\ rec' = [rec EXCEPT !.asking = @ - 1,
                        !.unreferenced = IF rec.recorder = "recording"
                                         THEN @ + 1 ELSE @,
                        !.recorder = "recording",
                        !.isRecording = TRUE,
                        !.recordingTime = 0,
                        !.interval = TRUE,
                        !.started = IF rec.isRecording THEN @ ELSE @ + 1]
  /\ UNCHANGED <<storeVars, facts, priceCall, images, selections, lastRun, ai,
                 page, gen, translations>>

\* getUserMedia rejected: the error is logged and alerted.
MediaDenied ==
  /\ rec.asking > 0
  /\ rec' = [rec EXCEPT !.asking = @ - 1]
  /\ UNCHANGED <<storeVars, facts, priceCall, images, selections, lastRun, ai,
                 page, gen, translations>>

\* stopRecording(), of a render in which isRecording is true: the recorder
\* in the ref is stopped, which calls its onstop (a recorder that does not
\* record has no stop event), and setIsRecording(false), upon which the
\* effect clears the interval.
Stopped(r) ==
  IF r.recorder # "null"
  THEN [r EXCEPT !.recorder = "inactive",
                 !.reading = IF r.recorder = "recording" THEN @ + 1 ELSE @,
                 !.isRecording = FALSE,
                 !.interval = FALSE,
                 !.ended = IF r.isRecording THEN @ + 1 ELSE @]
  ELSE r

\* An updater that counts on without a limit.
TickedOn(r) == [r EXCEPT !.recordingTime = @ + 1]

\* The updater of the interval callback:
\* prev >= maxDuration ? (stopRecording(), maxDuration) : prev + 1
Ticked(r) ==
  IF r.recordingTime >= maxDuration
  THEN [Stopped(r) EXCEPT !.recordingTime = maxDuration]
  ELSE [r EXCEPT !.recordingTime = @ + 1]

\* The interval fires.
TimerTick ==
  /\ rec.interval
  /\ rec' = Ticked(rec)
  /\ UNCHANGED <<storeVars, facts, priceCall, images, selections, lastRun, ai,
                 page, gen, translations>>

\* The Stop Recording button is clicked; it is rendered while there is no
\* voice note and isRecording is true.
StopRecording ==
  /\ ~page.voiceNote
  /\ rec.isRecording
  /\ rec' = Stopped(rec)
  /\ UNCHANGED <<storeVars, facts, priceCall, images, selections, lastRun, ai,
                 page, gen, translations>>

\* blobToVoiceData of an onstop handler settles: onVoiceNoteChange(voiceData)
\* when the read gave a string; when it failed the handler rejects.
NoteRead(ok) ==
  /\ rec.reading > 0
  /\ IF ok
     THEN /\ rec' = [rec EXCEPT !.reading = @ - 1, !.delivered = @ + 1]
          /\ page' = [page EXCEPT !.voiceNote = TRUE]
     ELSE /\ rec' = [rec EXCEPT !.reading = @ - 1, !.lost = @ + 1]
          /\ page' = page
  /\ UNCHANGED <<storeVars, facts, priceCall, images, selections, lastRun, ai,
                 gen, translations>>

\* An audio file is chosen (the recorder's handleFileSelect): the file is
\* read and onVoiceNoteChange(voiceData) is called, or the read fails and
\* is alerted.
HandleAudioSelect(ok) ==
  /\ ~page.voiceNote
  /\ ~rec.isRecording
  /\ page' = IF ok THEN [page EXCEPT !.voiceNote = TRUE] ELSE page
  /\ UNCHANGED <<storeVars, facts, priceCall, images, selections, lastRun, ai,
                 gen, translations, rec>>

\* deleteVoiceNote(): onVoiceNoteChange(undefined)
DeleteVoiceNote ==
  /\ page.voiceNote
  /\ page' = [page EXCEPT !.voiceNote = FALSE]
  /\ UNCHANGED <<storeVars, facts, priceCall, images, selections, lastRun, ai,
                 gen, translations, rec>>

\* ------------------------------------------------------ the AI functions

AiFunctions ==
  {"generateFactsFromImageAndVoice", "generateTitleAndDescription",
   "generateVariants", "proofreadText", "translateText", "summarizeVoiceNote"}

\* The environment of a call: chromeAiConfig.enabled, featureFlags.useMockApis,
\* what chrome.ai is, and whether the Web Translator API is enabled, defined
\* and supported.
Envs ==
  [enabled : BOOLEAN, useMockApis : BOOLEAN,
   chromeAi : {"undefined", "null", "object"}, translator : BOOLEAN]

\* What a call of the provider does: it returns a well-formed value ("ok"),
\* throws or rejects ("throws"), returns a string that is no JSON
\* ("unparsable"), or returns an object without the expected properties
\* ("empty").
Outcomes == {"ok", "throws", "unparsable", "empty"}

\* The outcomes of the provider calls of one function call, in call order.
Outs == [1..3 -> Outcomes]

\* The property names of the interfaces the functions promise.
Interface(fn) ==
  CASE fn = "generateFactsFromImageAndVoice" ->
         {"category", "brand", "color", "condition", "uniqueFeatures",
          "keywords", "estimatedPrice", "notes"}
    [] fn = "generateTitleAndDescription" ->
         {"title", "description", "keywords", "suggestedPrice"}
    [] fn = "generateVariants" -> {"tone", "title", "description"}
    [] fn = "summarizeVoiceNote" ->
         {"summary", "videoScript.script", "videoScript.duration",
          "videoScript.keyPoints"}
    [] OTHER -> {"string"}

\* isChromeBuiltInAiAvailable()
isChromeBuiltInAiAvailable(env) ==
  /\ env.enabled
  /\ ~env.useMockApis
  /\ env.chromeAi # "undefined"

\* The value a call resolves with: its property names, per part (one
\* part, three for the variants) where it came from, and the tone tags of
\* the parts (of the variants only).
Resolved(fields, sources) ==
  [settled |-> "resolved", fields |-> fields, sources |-> sources,
   tones |-> <<>>]

NoResult ==
  [settled |-> "pending", fields |-> {}, sources |-> <<>>, tones |-> <<>>]

\* const tones = ["friendly", "premium", "bargain"]
tones == <<"friendly", "premium", "bargain">>

\* A switch that has lost its cases and tags every variant as the first.
MockVariantUntagged(tone) == [tone |-> "friendly", source |-> "mock"]

\* getMockVariant: each case of the switch returns a variant tagged with
\* the tone it was called for.
getMockVariant(tone) == [tone |-> tone, source |-> "mock"]

\* The async callback of tones.map: the rewriter's text under the tone of
\* the callback, or the mock variant of that tone when the rewriter threw.
RewrittenVariant(tone, out) ==
  IF out = "throws" THEN getMockVariant(tone)
                    ELSE [tone |-> tone, source |-> "live"]

\* Promise.all: the values in the order of the promises, whatever the order
\* in which they settled.
PromiseAll(values) == values

\* The array of variants generateVariants resolves with.
Variants(values) ==
  [settled |-> "resolved", fields |-> {"tone", "title", "description"},
   sources |-> [i \in 1..Len(values) |-> values[i].source],
   tones |-> [i \in 1..Len(values) |-> values[i].tone]]

\* The fallback mock implementation of each function.
Mock(fn) ==
  CASE fn = "generateFactsFromImageAndVoice" ->
         Resolved({"category", "brand", "color", "condition", "uniqueFeatures",
                   "keywords", "estimatedPrice", "notes"}, <<"mock">>)
    [] fn = "generateTitleAndDescription" ->
         Resolved({"title", "description", "keywords", "suggestedPrice"}, <<"mock">>)
    [] fn = "generateVariants" ->
         Variants([i \in 1..Len(tones) |-> getMockVariant(tones[i])])
    [] fn = "summarizeVoiceNote" ->
         Resolved({"summary", "videoScript.script", "videoScript.duration",
                   "videoScript.keyPoints"}, <<"mock">>)
    [] OTHER -> Resolved({"string"}, <<"mock">>)

\* A catch block that throws the error on.
Rethrown(fn) ==
  [settled |-> "rejected", fields |-> {}, sources |-> <<>>, tones |-> <<>>]

\* The catch block of a function: the error is logged and control falls
\* through to the mock implementation.
Caught(fn) == Mock(fn)

\* Whether the statements of the try block throw, given what the provider
\* calls do: the call itself throws, or JSON.parse of what it returned does.
Throws(fn, env, outs) ==
  \/ env.chromeAi = "null"
  \/ CASE fn \in {"generateFactsFromImageAndVoice", "generateTitleAndDescription"} ->
            outs[1] \in {"throws", "unparsable"}
       [] fn = "summarizeVoiceNote" ->
            outs[1] = "throws" \/ outs[2] \in {"throws", "unparsable"}
       [] fn = "generateVariants" -> FALSE
       [] OTHER -> outs[2] = "throws"

\* What the try block returns when it does not throw.
Live(fn, outs) ==
  CASE fn = "generateFactsFromImageAndVoice" ->
         Resolved({"category", "brand", "color", "condition", "uniqueFeatures",
                   "keywords", "estimatedPrice", "notes"},
                  <<IF outs[1] = "ok" THEN "live" ELSE "default">>)
    [] fn = "generateTitleAndDescription" ->
         Resolved({"title", "description", "keywords", "suggestedPrice"},
                  <<IF outs[1] = "ok" THEN "live" ELSE "default">>)
    [] fn = "generateVariants" ->
         Variants(PromiseAll([i \in 1..Len(tones) |->
                                RewrittenVariant(tones[i], outs[i])]))
    [] fn = "summarizeVoiceNote" ->
         Resolved({"summary", "videoScript.script", "videoScript.duration",
                   "videoScript.keyPoints"},
                  <<IF outs[2] = "ok" THEN "live" ELSE "default">>)
    [] OTHER -> Resolved({"string"}, <<"live">>)

\* The part of a function from its availability test on.
ChromeAiOrMock(fn, env, outs) ==
  IF isChromeBuiltInAiAvailable(env)
  THEN IF Throws(fn, env, outs) THEN Caught(fn) ELSE Live(fn, outs)
  ELSE Mock(fn)

\* What a call of fn resolves or rejects with.  translateText tries the Web
\* Translator API first (provider call 1), then chrome.ai (call 2); the
\* other text functions make one call, counted as call 2.
AiFunction(fn, env, outs) ==
  IF fn = "translateText" /\ env.translator /\ outs[1] # "throws"
  THEN Resolved({"string"}, <<"translator">>)
  ELSE ChromeAiOrMock(fn, env, outs)

NoAi ==
  [fn |-> "none",
   env |-> [enabled |-> FALSE, useMockApis |-> FALSE, chromeAi |-> "undefined",
            translator |-> FALSE],
   outs |-> [i \in 1..3 |-> "ok"], result |-> NoResult]

\* An AI function is called and settles.
AiCall(fn, env, outs) ==
  /\ ai.fn = "none"
  /\ ai' = [fn |-> fn, env |-> env, outs |-> outs,
            result |-> AiFunction(fn, env, outs)]
  /\ UNCHANGED <<storeVars, facts, priceCall, images, selections, lastRun, pageVars>>

\* The caller has taken the result.
AiReturn ==
  /\ ai.fn # "none"
  /\ ai' = NoAi
  /\ UNCHANGED <<storeVars, facts, priceCall, images, selections, lastRun, pageVars>>

\* ------------------------------------------------------ specifications

Init ==
  /\ now = 0
  /\ dbPromise = 0
  /\ promises = <<>>
  /\ store = {}
  /\ lateIds = {}
  /\ last = [op |-> "none", id |-> 0, arg |-> NoListing, ok |-> TRUE, ret |-> <<>>,
             at |-> -1, before |-> 0, after |-> NoWrite]
  /\ pc = [p \in Procs |-> "idle"]
  /\ call = [p \in Procs |-> NoCall]
  /\ awaits = [p \in Procs |-> 0]
  /\ generated = <<>>
  /\ facts = NoFacts
  /\ priceCall = NoPriceCall
  /\ images = <<>>
  /\ selections = [s \in Slots |-> NoSelection]
  /\ lastRun = NoRun
  /\ ai = NoAi
  /\ page = InitPage
  /\ gen = [r \in RunSlots |-> NoGen]
  /\ translations = {}
  /\ rec = NoRecorder

\* One caller that awaits each call before the next.
Next ==
  \/ \E l \in Listings, o \in BOOLEAN : SaveListing(l, o)
  \/ \E i \in Ids, o \in BOOLEAN : GetListing(i, o)
  \/ \E o \in BOOLEAN : GetAllListings(o)
  \/ \E i \in Ids, o \in BOOLEAN : DeleteListing(i, o)
  \/ \E o \in BOOLEAN : ClearAllListings(o)
  \/ Tick

Spec == Init /\ [][Next]_vars

\* Callers whose calls overlap.
NextAsync ==
  \/ \E p \in Procs, c \in AsyncCalls : Start(p, c)
  \/ \E k \in 1..NumProcs, s \in {"resolved", "rejected"} : OpenSettles(k, s)
  \/ \E p \in Procs : Resume(p)
  \/ \E p \in Procs : Reject(p)
  \/ \E p \in Procs : Commit(p)
  \/ \E p \in Procs : Abort(p)
  \/ \E p \in Procs : Return(p)
  \/ Reload

SpecAsync == Init /\ [][NextAsync]_vars

\* Saves under different ids, issued while the others are in flight.
NextSaves ==
  \/ \E p \in Procs, pl \in Payloads : StartSave(p, pl)
  \/ \E k \in 1..NumProcs, s \in {"resolved", "rejected"} : OpenSettles(k, s)
  \/ \E p \in Procs : Resume(p)
  \/ \E p \in Procs : Reject(p)
  \/ \E p \in Procs : Commit(p)
  \/ \E p \in Procs : Abort(p)

SpecSaves == Init /\ [][NextSaves]_vars

\* Calls of suggestPrice.
NextPrice == \E f \in FactsInputs : CallSuggestPrice(f)

SpecPrice == Init /\ [][NextPrice]_vars

\* The Editor page: the ImageUploader's handlers, with selections that
\* overlap, and handleGenerate (no voice note, one id).
NextEditor ==
  \/ \E s \in Slots, n \in FileCounts : HandleFileSelect(s, n)
  \/ \E s \in Slots, n \in FileCounts : HandleDrop(s, n)
  \/ \E s \in Slots : OpenCamera(s)
  \/ \E s \in Slots, n \in FileCounts : CameraChange(s, n)
  \/ \E s \in Slots, ok \in 0..maxImages : FilesRead(s, ok)
  \/ \E i \in 1..maxImages : RemoveImage(i)
  \/ \E f \in AiSteps \cup {"none"}, w \in BOOLEAN :
        HandleGenerate(FALSE, f, <<18>>, TRUE, w)

SpecEditor == Init /\ [][NextEditor]_vars

\* Generation runs one after another, over time: the user selects more
\* files than fit, once the reads are over (all failed, or none) runs
\* handleGenerate, with or without a voice note.
NextRuns ==
  \/ HandleFileSelect(1, 6)
  \/ \E ok \in {0, maxImages} : FilesRead(1, ok)
  \/ \E v \in BOOLEAN, f \in AiSteps \cup {"none"}, d \in EditorDraws,
        o \in BOOLEAN, w \in BOOLEAN : HandleGenerate(v, f, d, o, w)
  \/ Tick

SpecRuns == Init /\ [][NextRuns]_vars

\* Calls of the AI functions.
NextAi ==
  \/ \E fn \in AiFunctions, env \in Envs, outs \in Outs : AiCall(fn, env, outs)
  \/ AiReturn

SpecAi == Init /\ [][NextAi]_vars

\* Successive calls of generateListingId as the clock advances.
NextId ==
  \/ \E d \in RandomDraws : GenerateListingId(d)
  \/ Tick

SpecId == Init /\ [][NextId]_vars

\* The Editor with its Generate button, its uploader and its recorder's
\* file input, English being selected; every run gets the same facts.
NextPage ==
  \/ HandleFileSelect(1, 1)
  \/ FilesRead(1, 1)
  \/ \E ok \in BOOLEAN : HandleAudioSelect(ok)
  \/ DeleteVoiceNote
  \/ \E r \in RunSlots : ClickGenerate(r)
  \/ \E r \in RunSlots : Settles(r, {1})
  \/ ProgressTimeout

SpecPage == Init /\ [][NextPage]_vars

\* The same, every await of a run settling in the end: the mocks resolve
\* from timers, and the provider and the database are taken to answer.
SpecPageFair == SpecPage /\ WF_vars(\E r \in RunSlots : Settles(r, {1}))

\* The same Editor, its runs getting different facts.
NextSteps ==
  \/ HandleFileSelect(1, 1)
  \/ FilesRead(1, 1)
  \/ \E ok \in BOOLEAN : HandleAudioSelect(ok)
  \/ DeleteVoiceNote
  \/ \E r \in RunSlots : ClickGenerate(r)
  \/ \E r \in RunSlots : Settles(r, Answers)

SpecSteps == Init /\ [][NextSteps]_vars

\* handleGenerate called whatever the button shows, one call at a time,
\* without a voice note.
NextHandler ==
  \/ HandleFileSelect(1, 1)
  \/ FilesRead(1, 1)
  \/ RemoveImage(1)
  \/ InvokeGenerate(1)
  \/ FactsDone(1, 1)
  \/ ContentDone(1)
  \/ VariantsDone(1)
  \/ TitleProofread(1)
  \/ DescProofread(1, <<18>>)
  \/ \E w \in BOOLEAN : SaveDone(1, TRUE, w)
  \/ GenerateFails(1)

SpecHandler == Init /\ [][NextHandler]_vars

\* The Editor with the language selector of its preview: runs without a
\* voice note whose awaits resolve.
NextTranslate ==
  \/ HandleFileSelect(1, 1)
  \/ FilesRead(1, 1)
  \/ \E r \in RunSlots : ClickGenerate(r)
  \/ \E r \in RunSlots, k \in Answers : FactsDone(r, k)
  \/ \E r \in RunSlots : ContentDone(r)
  \/ \E r \in RunSlots : VariantsDone(r)
  \/ \E r \in RunSlots : TitleProofread(r)
  \/ \E r \in RunSlots : DescProofread(r, <<18>>)
  \/ \E r \in RunSlots : SaveDone(r, TRUE, TRUE)
  \/ \E l \in {"en", "ur"} : SetSelectedLanguage(l)
  \/ \E t \in translations, ok \in BOOLEAN : TranslationDone(t, ok)

SpecTranslate == Init /\ [][NextTranslate]_vars

\* The VoiceRecorder.
NextVoice ==
  \/ StartRecording
  \/ MediaGranted
  \/ MediaDenied
  \/ TimerTick
  \/ StopRecording
  \/ \E ok \in BOOLEAN : NoteRead(ok)
  \/ \E ok \in BOOLEAN : HandleAudioSelect(ok)
  \/ DeleteVoiceNote

\* The interval fires as long as it is set, and every read of a recorded
\* blob settles.
SpecVoice ==
  /\ Init /\ [][NextVoice]_vars
  /\ WF_vars(TimerTick)
  /\ WF_vars(\E ok \in BOOLEAN : NoteRead(ok))

\* ------------------------------------------------------------ properties

\* r equals listing l in every field other than updatedAt.
SameButUpdatedAt(r, l) ==
  /\ r.id = l.id
  /\ r.createdAt = l.createdAt
  /\ r.images = l.images
  /\ r.voiceNote = l.voiceNote
  /\ r.content = l.content
  /\ r.facts = l.facts
  /\ r.variants = l.variants
  /\ r.videoScript = l.videoScript

\* C1: a completed saveListing(L) directly followed by getListing(L.id)
\* returns a record that equals L in id, createdAt, images, voiceNote,
\* content, facts, variants and videoScript, whatever the store held before.
C1_SaveThenGet ==
  [][ (last.op = "save" /\ last.ok /\ last'.op = "get" /\ last'.id = last.id)
      => /\ last'.ok
         /\ Len(last'.ret) = 1
         /\ SameButUpdatedAt(last'.ret[1], last.arg) ]_vars

\* A get that directly follows a save of its key into a store that already
\* held other records, and found the record.
C1_Witness ==
  /\ last.op = "get" /\ last.ok
  /\ last.after.op = "save"
  /\ last.before >= 2
  /\ Len(last.ret) = 1
  /\ last.ret[1].videoScript = "script"

\* C2 as claimed: after a completed saveListing(L) the stored updatedAt is
\* at least the updatedAt L carried before the save.
C2_Original ==
  (last.op = "save" /\ last.ok)
    => \A r \in AtKey(store, last.id) : r.updatedAt >= last.arg.updatedAt

\* C2 amended: after a completed saveListing(L) the stored updatedAt is the
\* clock reading the save took; it is at least the updatedAt L carried
\* whenever that value was not ahead of the clock at the save.
C2_Amended ==
  (last.op = "save" /\ last.ok)
    => /\ AtKey(store, last.id) # {}
       /\ \A r \in AtKey(store, last.id) :
            /\ r.updatedAt = last.at
            /\ last.arg.updatedAt <= last.at => r.updatedAt >= last.arg.updatedAt

\* A save at clock 1 of a listing that carried updatedAt 0.
C2_Witness ==
  /\ last.op = "save" /\ last.ok
  /\ last.arg.updatedAt = 0
  /\ last.at = 1
  /\ \E r \in AtKey(store, last.id) : r.updatedAt = 1

\* C3 as claimed: every record in the store has updatedAt >= createdAt.
C3_Original == \A r \in store : r.updatedAt >= r.createdAt

\* C3 amended: every record in the store that was saved from a listing whose
\* createdAt was not ahead of the clock at the save has updatedAt >= createdAt.
C3_Amended ==
  \A r \in store : r.id \notin lateIds => r.updatedAt >= r.createdAt

\* A store that holds a record saved with createdAt 1 at clock 1 beside a
\* record saved with createdAt ahead of the clock, after a delete.
C3_Witness ==
  /\ \E r \in store : r.id \notin lateIds /\ r.createdAt = 1
  /\ \E r \in store : r.id \in lateIds
  /\ last.op = "delete" /\ last.ok

\* C4: getAllListings returns every record of the store exactly once, by
\* createdAt descending; records with equal createdAt are all returned.
C4_GetAllNewestFirst ==
  (last.op = "getAll" /\ last.ok)
    => /\ Len(last.ret) = Cardinality(store)
       /\ { last.ret[k] : k \in 1..Len(last.ret) } = store
       /\ \A k \in 1..(Len(last.ret) - 1) :
            last.ret[k].createdAt >= last.ret[k + 1].createdAt

\* getAllListings returned three records with createdAt 2, 1, 0 in that
\* order, the one with createdAt 2 under the least key.
C4_Witness ==
  /\ last.op = "getAll" /\ last.ok
  /\ Len(last.ret) = 3
  /\ last.ret[1].createdAt = 2 /\ last.ret[1].id = 1
  /\ last.ret[2].createdAt = 1
  /\ last.ret[3].createdAt = 0

\* C5: getListing(id) directly after a completed deleteListing(id) resolves
\* with undefined, whether or not id was stored; and getListing on an id
\* absent from an opened store resolves with undefined, it does not reject.
C5_DeleteThenGet ==
  /\ (last.op = "get" /\ last.after.op = "delete")
       => (last.ok /\ last.ret = Undefined)
  /\ (last.op = "get" /\ DbState(dbPromise, promises) = "resolved" /\ AtKey(store, last.id) = {})
       => (last.ok /\ last.ret = Undefined)

\* A get directly after a delete that removed the record under its key.
C5_Witness ==
  /\ last.op = "get" /\ last.ok
  /\ last.after = [op |-> "delete", removed |-> 1]
  /\ last.ret = Undefined
  /\ store # {}

\* C6: a deleteListing(id) step leaves every record under another key in the
\* store unchanged and leaves no record under id; with the store opened it
\* resolves, also when id is absent (the store is then unchanged).
C6_DeleteFrame ==
  [][ (last' # last /\ last'.op = "delete")
      => /\ store' = { r \in store : r.id # last'.id }
         /\ DbState(dbPromise', promises') = "resolved" => last'.ok
         /\ AtKey(store, last'.id) = {} => store' = store
         /\ now' = now ]_vars

\* A delete that removed one of three records.
C6_Witness ==
  /\ last.op = "delete" /\ last.ok
  /\ last.before = 3
  /\ Cardinality(store) = 2

\* C7: after a completed clearAllListings the store is empty; a
\* getAllListings that directly follows it returns the empty sequence and a
\* getListing that directly follows it returns undefined, for every id.
C7_ClearThenRead ==
  /\ (last.op = "clear" /\ last.ok) => store = {}
  /\ (last.op \in {"get", "getAll"} /\ last.after.op = "clear")
       => (last.ok /\ last.ret = <<>>)

\* A getAllListings directly after a clear that removed three records.
C7_Witness ==
  /\ last.op = "getAll" /\ last.ok
  /\ last.after = [op |-> "clear", removed |-> 3]
  /\ last.ret = <<>>

\* No two records of the store share an id.
UniqueIds == \A r \in store : \A s \in store : r.id = s.id => r = s

\* C8: the store never holds two records with one id; a completed
\* saveListing(L) leaves under L.id exactly the record made of L's fields and
\* the clock reading, leaves the other records as they were, and changes the
\* number of records by 0 when L.id was stored and by 1 when it was not.
C8_Upsert ==
  /\ []UniqueIds
  /\ [][ (last' # last /\ last'.op = "save" /\ last'.ok)
         => /\ AtKey(store', last'.id)
                 = { [last'.arg EXCEPT !.updatedAt = last'.at] }
            /\ store' \ AtKey(store', last'.id) = store \ AtKey(store, last'.id)
            /\ Cardinality(store')
                 = Cardinality(store) + (IF AtKey(store, last'.id) = {} THEN 1 ELSE 0)
       ]_vars

\* A save that replaced a record in a store of three: the count is unchanged
\* and the record carries the second payload.
C8_Witness ==
  /\ last.op = "save" /\ last.ok
  /\ last.before = 3
  /\ Cardinality(store) = 3
  /\ last.arg.content = "Test 2"

\* C9: the ids generateListingId returns are pairwise distinct, calls within
\* one millisecond included, and each starts with listing_.
C9_FreshIds ==
  \A i \in 1..Len(generated) :
    /\ generated[i].prefix = "listing_"
    /\ \A j \in 1..Len(generated) : i # j => generated[i] # generated[j]

\* C10: openDB is invoked at most once, and every caller that has called
\* getDB() holds the one promise the module keeps.
C10_OneOpen ==
  /\ Len(promises) <= 1
  /\ \A p \in Procs : pc[p] # "idle" => awaits[p] = 1 /\ dbPromise = 1

\* Two callers are suspended at `await getDB()` while the open is pending.
C10_Witness ==
  /\ Len(promises) = 1
  /\ promises[1] = "pending"
  /\ \E p \in Procs : \E q \in Procs \ {p} :
       /\ pc[p] = "awaitDB" /\ pc[q] = "awaitDB"
       /\ awaits[p] = awaits[q]

\* C11: a call rejects when the open of the storage failed or its db request
\* failed, with that error; the step in which it rejects leaves the records
\* and the kept promise as they were (no second open, no second request);
\* a call goes past `await getDB()` only on an opened storage; and a save
\* rejected by the open has not written to the listing it was passed.
C11_FailurePropagates ==
  /\ [](\A p \in Procs :
          /\ pc[p] = "failed" =>
               /\ call[p].err \in {"open", "io"}
               /\ call[p].err = "open" =>
                    /\ promises[awaits[p]] = "rejected"
                    /\ call[p].obj = call[p].arg
               /\ call[p].err = "io" => promises[awaits[p]] = "resolved"
          /\ pc[p] \in {"awaitTx", "done"} => promises[awaits[p]] = "resolved"
          /\ Len(promises) <= 1)
  /\ [][ \A p \in Procs :
           (pc[p] # "failed" /\ pc'[p] = "failed")
             => /\ store' = store
                /\ promises' = promises
                /\ dbPromise' = dbPromise
                /\ \A q \in Procs \ {p} : pc'[q] = pc[q] ]_vars

\* A save rejected by a failed open, in a session that found records from an
\* earlier session in the store.
C11_Witness ==
  \E p \in Procs :
    /\ pc[p] = "failed"
    /\ call[p].op = "save"
    /\ call[p].err = "open"
    /\ store # {}

\* C12: of saves issued against different ids while the others are in
\* flight, every one that has completed has its record in the store, equal
\* to the listing passed to that call but for the updatedAt the save set,
\* whatever the order in which they complete.
C12_ConcurrentSaves ==
  \A p \in Procs :
    pc[p] = "done"
      => /\ Cardinality(AtKey(store, call[p].id)) = 1
         /\ \A r \in AtKey(store, call[p].id) :
              /\ SameButUpdatedAt(r, call[p].arg)
              /\ r.updatedAt = call[p].obj.updatedAt

\* Both saves have completed, the one issued by caller 2 while caller 1 was
\* suspended; the store holds both records with different payloads.
C12_Witness ==
  /\ pc[1] = "done" /\ pc[2] = "done"
  /\ \E r \in store : r.id = 1 /\ r.content = "Test 1"
  /\ \E r \in store : r.id = 2 /\ r.content = "Test 2"

\* C13 as stated: whenever an estimatedPrice is present on the facts, any
\* number, 0 included, suggestPrice returns exactly that number.
C13_Original ==
  (priceCall.called /\ priceCall.arg.estimatedPrice.kind = "number")
    => priceCall.result = priceCall.arg.estimatedPrice

\* C13, amended: an estimatedPrice that is a number other than 0 is returned
\* as it is, whatever the category and the condition; an estimatedPrice of 0
\* is not returned (it is taken as absent, and the heuristic is applied).
C13_Amended ==
  priceCall.called =>
    /\ (priceCall.arg.estimatedPrice.kind = "number"
          /\ priceCall.arg.estimatedPrice.val # 0)
         => priceCall.result = priceCall.arg.estimatedPrice
    /\ priceCall.arg.estimatedPrice = Num(0) => priceCall.result # Num(0)

\* suggestPrice was called for a book in good condition (7 by the tables)
\* with an estimatedPrice of 100, and returned 100.
C13_Witness ==
  /\ priceCall.called
  /\ priceCall.arg = [category |-> "Books", condition |-> "Good",
                      estimatedPrice |-> Num(100)]
  /\ priceCall.result = Num(100)

\* C14: without an estimatedPrice, suggestPrice returns round(base x
\* multiplier), base being the category's table value, 50 for a category
\* not in the table, and multiplier the condition's, 0.5 for a condition not
\* in the table; a half rounds up (Books/Good gives 7).
C14_TableTimesMultiplier ==
  (priceCall.called /\ priceCall.arg.estimatedPrice = JsUndefined)
    => LET c == priceCall.arg.category
           k == priceCall.arg.condition
           base == CASE c = "Electronics" -> 100 [] c = "Clothing" -> 25
                     [] c = "Furniture" -> 200 [] c = "Books" -> 10
                     [] c = "Sports" -> 50 [] c = "Tools" -> 75
                     [] c = "Toys" -> 20 [] OTHER -> 50
           hundredths == CASE k = "New" -> 100 [] k = "Like New" -> 85
                           [] k = "Good" -> 65 [] k = "Fair" -> 45
                           [] k = "Poor" -> 25 [] OTHER -> 50
       IN  /\ priceCall.result = Num((base * hundredths + 50) \div 100)
           /\ (c = "Books" /\ k = "Good") => priceCall.result = Num(7)

\* C15: for a category held fixed and no estimatedPrice, the price for New
\* is greater than the price for Poor, and the price does not go up along
\* New, Like New, Good, Fair, Poor.
C15_OrderedByCondition ==
  LET rank == ("New" :> 1) @@ ("Like New" :> 2) @@ ("Good" :> 3)
                @@ ("Fair" :> 4) @@ ("Poor" :> 5)
      before == priceCall.prev
      after == priceCall.arg.condition
  IN  (/\ priceCall.called
       /\ priceCall.arg.estimatedPrice = JsUndefined
       /\ before.condition \in DOMAIN rank
       /\ after \in DOMAIN rank
       /\ rank[before.condition] < rank[after])
        => /\ before.result.kind = "number"
           /\ priceCall.result.kind = "number"
           /\ before.result.val >= priceCall.result.val
           /\ (before.condition = "New" /\ after = "Poor")
                => before.result.val > priceCall.result.val

\* C16: without an estimated price, suggestPrice returns a number that is
\* an integer and not negative, for every category and condition string.
C16_NonNegativeInteger ==
  (priceCall.called /\ priceCall.arg.estimatedPrice = JsUndefined)
    => /\ priceCall.result.kind = "number"
       /\ priceCall.result.val \in Nat

C18_ImagesBounded ==
  /\ Len(images) <= maxImages
  /\ \A r \in store : Len(r.images) <= maxImages

\* The list is full while a selection that started on a shorter list is
\* still reading its files, and a listing of maxImages images is saved.
C18_Witness ==
  /\ Len(images) = maxImages
  /\ \E s \in Slots :
       /\ selections[s].pc = "reading"
       /\ Len(selections[s].images) < Len(images)
       /\ Len(selections[s].todo) > 0
  /\ \E r \in store : Len(r.images) = maxImages

\* C19: a handleGenerate run that completed every step has added exactly
\* one record to the store, under the id it generated; a run that failed at
\* a step, or was turned down for want of images, has added none.
C19_OncePerRun ==
  /\ lastRun.outcome = "complete"
       => /\ Cardinality(store) = lastRun.before + 1
          /\ Cardinality({ r \in store : r.id.time = lastRun.time
                                          /\ r.id.suffix = lastRun.suffix }) = 1
  /\ lastRun.outcome \in {"failed", "noImages"}
       => Cardinality(store) = lastRun.before

C21_ThreeTones ==
  ai.fn = "generateVariants" =>
    /\ ai.result.settled = "resolved"
    /\ Len(ai.result.tones) = 3
    /\ Len(ai.result.sources) = 3
    /\ ai.result.tones = <<"friendly", "premium", "bargain">>

\* generateVariants was called with the provider available, the rewriter
\* threw for the second tone only, and the call has resolved with a live, a
\* mock and a live variant.
C21_Witness ==
  /\ ai.fn = "generateVariants"
  /\ isChromeBuiltInAiAvailable(ai.env)
  /\ ai.env.chromeAi = "object"
  /\ ai.outs = <<"ok", "throws", "ok">>
  /\ ai.result.sources = <<"live", "mock", "live">>

\* C23: once the open of the storage has failed, the module keeps the
\* rejected promise until the page is loaded again: no step opens the
\* storage again or replaces the promise, every call in flight holds that
\* promise and has not gone past `await getDB()`, a call leaves that await
\* only by rejecting with the open's error, and the records stay as they
\* were.
C23_NoRetry ==
  /\ [](OpenFailed =>
         \A p \in Procs :
           /\ pc[p] \in {"idle", "awaitDB", "failed"}
           /\ pc[p] # "idle" => awaits[p] = dbPromise
           /\ pc[p] = "failed" => call[p].err = "open")
  /\ [][OpenFailed =>
         /\ store' = store
         /\ \/ promises' = promises /\ dbPromise' = dbPromise
            \/ dbPromise' = 0 /\ \A p \in Procs : pc[p] = "idle"
         /\ \A p \in Procs :
              pc[p] = "awaitDB" /\ pc'[p] # "awaitDB"
                => pc'[p] = "failed" /\ call'[p].err = "open"]_vars

\* The open has failed, and a save that was called after the failure has
\* rejected with the open's error, no second open having been made.
C23_Witness ==
  /\ Len(promises) = 1
  /\ promises[1] = "rejected"
  /\ \E p \in Procs :
       /\ pc[p] = "failed"
       /\ call[p].op = "save"
       /\ call[p].seen = "rejected"
       /\ call[p].err = "open"

\* The functions a run calls, in the order of handleGenerate's steps.
Order(voice) ==
  <<"generateFactsFromImageAndVoice", "generateTitleAndDescription",
    "generateVariants">>
    \o (IF voice THEN <<"summarizeVoiceNote">> ELSE <<>>)
    \o <<"proofreadText", "proofreadText", "saveListing">>

\* The run in slot r has called fn.
Called(r, fn) == \E i \in 1..Len(gen[r].calls) : gen[r].calls[i] = fn

\* The invocations of handleGenerate that have not returned.
Running == { r \in RunSlots : gen[r].pc \in Awaiting }

\* C22: a saved listing has a video script exactly if it has the voice note
\* of its run; a run calls summarizeVoiceNote only if it was started with a
\* voice note, and then before it saves; the listing a run saves carries the
\* script of that run, null for a run without a voice note.
C22_ScriptIffVoice ==
  /\ [](/\ \A l \in store : (l.videoScript # 0) <=> (l.voiceNote = "voice")
        /\ \A r \in RunSlots :
             /\ Called(r, "summarizeVoiceNote") => gen[r].voice
             /\ gen[r].pc = "save" =>
                  (Called(r, "summarizeVoiceNote") <=> gen[r].voice))
  /\ [][\A r \in RunSlots :
          (gen[r].pc = "save" /\ gen'[r].pc = "complete") =>
            \E l \in store' :
              /\ l.id = gen[r].id
              /\ l.voiceNote = IF gen[r].voice THEN "voice" ELSE "undefined"
              /\ (l.videoScript # 0) <=> gen[r].voice
              /\ l.videoScript = gen[r].script]_vars

\* A run without a voice note has completed after an earlier run had set a
\* video script: the listing it saved has videoScript null.
C22_Witness ==
  /\ gen[1].pc = "complete"
  /\ page.videoScript # 0
  /\ \E l \in store : l.videoScript = 0 /\ l.voiceNote = "undefined"

\* C24: the functions a run has called are an initial part of the fixed
\* order (summarizeVoiceNote only with a voice note), saveListing being
\* called last, after the facts, the content, the variants and the proofread
\* texts are there; and the listing a run saves carries the proofread content
\* made from the facts of that run, those facts and their variants.
C24_FixedOrder ==
  /\ [](\A r \in RunSlots :
          LET c == gen[r].calls
          IN  /\ Len(c) <= Len(Order(gen[r].voice))
              /\ c = SubSeq(Order(gen[r].voice), 1, Len(c))
              /\ gen[r].pc = "save" <=> Called(r, "saveListing")
              /\ gen[r].pc = "save" =>
                   /\ gen[r].facts # 0
                   /\ c = Order(gen[r].voice))
  /\ [](\A l \in store :
          /\ l.content = [of |-> l.facts, proofread |-> TRUE, lang |-> "en"]
          /\ l.variants = l.facts)
  /\ [][\A r \in RunSlots :
          (gen[r].pc = "save" /\ gen'[r].pc = "complete") =>
            \E l \in store' :
              /\ l.id = gen[r].id
              /\ l.facts = gen[r].facts
              /\ l.variants = gen[r].facts
              /\ l.content = [of |-> gen[r].facts, proofread |-> TRUE,
                              lang |-> "en"]]_vars

\* A run with a voice note is at its await of saveListing while the store
\* holds the listing of an earlier run with other facts.
C24_Witness ==
  /\ gen[1].pc = "save"
  /\ gen[1].voice
  /\ gen[1].calls = Order(TRUE)
  /\ \E l \in store : l.facts # gen[1].facts

\* C25: a run that has started ends, as complete or failed, with
\* isGenerating false; isGenerating is true exactly while a run has not
\* returned, the button is then disabled and at most one run is in flight;
\* after a failed run progress is empty until the next run starts.
C25_RunEnds ==
  /\ [](/\ Cardinality(Running) <= 1
        /\ page.isGenerating <=> Running # {}
        /\ page.isGenerating => ButtonDisabled
        /\ ((\E r \in RunSlots : gen[r].pc = "failed") /\ Running = {})
             => page.progress = "")
  /\ \A r \in RunSlots :
       (gen[r].pc \in Awaiting)
         ~> (gen[r].pc \in {"complete", "failed"} /\ ~page.isGenerating)

\* A run has failed after an earlier one had completed: isGenerating is
\* false and progress is empty.
C25_Witness ==
  /\ gen[1].pc = "failed"
  /\ store # {}
  /\ ~page.isGenerating
  /\ page.progress = ""

\* C26: after a run has completed, the video script the preview is given is
\* the videoScript of the listing the run saved (null if it saved none).
C26_PreviewShowsSaved ==
  \A r \in RunSlots :
    gen[r].pc = "complete" =>
      \A l \in store : page.videoScript = l.videoScript

\* C27: with English selected and no translateContent call in flight,
\* translatedContent is null; and a translatedContent that is set is the
\* translation of the present content into the selected language.
C27_TranslationConsistent ==
  /\ (page.selectedLanguage = "en" /\ translations = {})
       => page.translatedContent = NoContent
  /\ page.translatedContent # NoContent
       => page.translatedContent = Translated(page.content, page.selectedLanguage)

\* C28: when a selection has read its files, the image list is the list as
\* it stood before that step, followed by images the selection read.
C28_Appends ==
  [][\A s \in Slots :
       (selections[s].pc = "reading" /\ selections'[s].pc = "idle") =>
         \E n \in 0..Len(selections[s].todo) :
           images' = images \o SubSeq(selections[s].todo, 1, n)]_vars

\* C29: a call of handleGenerate with an empty image list returns having
\* called nothing; the step leaves the Editor's state (isGenerating false,
\* facts, content, variants, videoScript), the records and the database
\* handle as they were.
C29_RejectedBeforeWork ==
  /\ [](gen[1].pc = "rejected" => gen[1].calls = <<>> /\ ~page.isGenerating)
  /\ [][(Len(images) = 0 /\ gen[1].pc \notin Awaiting /\ gen'[1] # gen[1]) =>
          /\ gen'[1].pc = "rejected"
          /\ gen'[1].calls = <<>>
          /\ page' = page
          /\ ~page'.isGenerating
          /\ store' = store
          /\ dbPromise' = dbPromise
          /\ promises' = promises]_vars

\* handleGenerate was called with no image after an earlier run had
\* completed: it has returned, and the state of that run is still there.
C29_Witness ==
  /\ gen[1].pc = "rejected"
  /\ Len(images) = 0
  /\ page.facts # 0
  /\ page.content # NoContent
  /\ page.variants # 0
  /\ store # {}

====
